---------------------------- MODULE Spec2Model ----------------------------
(***************************************************************************)
(* A model of src/main.py: the conversation / message store exposed by the *)
(* HTTP handlers (create_conversation, list_conversations, get_messages,   *)
(* add_message, send_message) and the rule-based reply generator           *)
(* (generate_ai_reply, summarize, reflect).                                *)
(*                                                                         *)
(* A Python str is a sequence of Unicode code points (naturals), so that   *)
(* strip, lower, split, startswith, "in", slicing, join and sorted are     *)
(* computed character by character as Python computes them.  A bson        *)
(* ObjectId is its 12 bytes written as 24 four-bit digits; str(ObjectId)   *)
(* and ObjectId(str) are the conversions between the two.                  *)
(***************************************************************************)
EXTENDS Integers, Sequences, FiniteSets, Bags, TLC

VARIABLES
    db,            \* the database handle of `from database import db`: TRUE, or FALSE for None
    conversation,  \* collection "conversation": documents in insertion order
    message,       \* collection "message": documents in insertion order
    inserted,      \* number of documents the store has accepted so far
    calls,         \* the bag of HTTP requests received so far: arguments, position, outcome
    prompt,        \* text functions: the input string
    fn,            \* text functions: which function was applied ("none" before)
    out            \* text functions: the string it returned

vars == <<db, conversation, message, inserted, calls, prompt, fn, out>>

storeVars == <<db, conversation, message, inserted, calls>>
textVars == <<prompt, fn, out>>

-----------------------------------------------------------------------------
(* Bounds of the model *)

\* pieces of Vocabulary concatenated into one input of the text functions
MaxPieces == 3

\* HTTP requests received in one behaviour
MaxCalls == 3

-----------------------------------------------------------------------------
(* Python str operations, on sequences of code points *)

\* the characters c with str.isspace(c): what str.strip() and str.split() treat as blank
WHITESPACE ==
    {9, 10, 11, 12, 13, 28, 29, 30, 31, 32, 133, 160, 5760} \cup (8192..8202)
        \cup {8232, 8233, 8239, 8287, 12288}

\* the code points the model lowers as Python does: Basic Latin, Latin-1
\* Supplement, Latin Extended-A, Cyrillic U+0400..U+045F, KELVIN SIGN and
\* ANGSTROM SIGN.  In this range str.lower() works character by character
\* (no final-sigma context); every input of the model is drawn from it.
LOWER_DOMAIN == (0..383) \cup (1024..1119) \cup {8490, 8491}

\* str.lower() of one character, as the string it becomes: one character,
\* except U+0130 (capital I with dot above), which becomes "i" followed by
\* U+0307 (combining dot above)
LowerChar(c) ==
    IF c \in 65..90 THEN <<c + 32>>
    ELSE IF c < 192 THEN <<c>>
    ELSE IF c = 304 THEN <<105, 775>>
    ELSE IF c = 8490 THEN <<107>>
    ELSE IF c = 8491 THEN <<229>>
    ELSE IF c = 376 THEN <<255>>
    ELSE IF c \in (192..214) \cup (216..222) \cup (1040..1071) THEN <<c + 32>>
    ELSE IF c \in 1024..1039 THEN <<c + 80>>
    ELSE IF \/ c \in (256..302) \cup (306..310) \cup (330..374) /\ c % 2 = 0
            \/ c \in (313..327) \cup (377..381) /\ c % 2 = 1
         THEN <<c + 1>>
    ELSE <<c>>

\* s.lower(): the lowered characters of s, concatenated.  long holds the
\* positions of s that become two characters, start(i) is the place in the
\* result of the first character of s[i], from(j) the position of s that
\* place j of the result comes from.
Lower(s) ==
    LET long == {i \in 1..Len(s) : Len(LowerChar(s[i])) = 2}
        start(i) == i + Cardinality({k \in long : k < i})
        from(j) == j - Cardinality({k \in long : start(k) < j})
    IN  IF long = {} THEN [i \in 1..Len(s) |-> LowerChar(s[i])[1]]
        ELSE [j \in 1..(Len(s) + Cardinality(long)) |->
                 LowerChar(s[from(j)])[j - start(from(j)) + 1]]

\* s.strip(chars): s without its leading and trailing characters of chars;
\* s.strip() is Strip(s, WHITESPACE)
Strip(s, chars) ==
    LET kept == {i \in 1..Len(s) : s[i] \notin chars}
    IN  IF kept = {} THEN <<>>
        ELSE SubSeq(s, CHOOSE i \in kept : \A j \in kept : i <= j,
                       CHOOSE i \in kept : \A j \in kept : j <= i)

\* s.startswith(p)
StartsWith(s, p) == Len(p) <= Len(s) /\ SubSeq(s, 1, Len(p)) = p

\* sub in s
Contains(s, sub) ==
    \E i \in 1..(Len(s) - Len(sub) + 1) : SubSeq(s, i, i + Len(sub) - 1) = sub

\* s[n:]
Drop(s, n) == SubSeq(s, n + 1, Len(s))

\* the n-th smallest element of a set of positions
Nth(P, n) == CHOOSE p \in P : Cardinality({q \in P : q < p}) = n - 1

\* s.split(sep) for a one-character sep: every occurrence of sep ends a piece,
\* empty pieces are kept
SplitSep(s, sep) ==
    LET at == {i \in 1..Len(s) : s[i] = sep}
        k == Cardinality(at)
        cut(j) == IF j = 0 THEN 0 ELSE IF j = k + 1 THEN Len(s) + 1 ELSE Nth(at, j)
    IN  [j \in 1..(k + 1) |-> SubSeq(s, cut(j - 1) + 1, cut(j) - 1)]

\* s.split(): runs of whitespace separate the words, no empty word is produced
SplitWhitespace(s) ==
    LET blank(i) == i < 1 \/ i > Len(s) \/ s[i] \in WHITESPACE
        first == {i \in 1..Len(s) : ~blank(i) /\ blank(i - 1)}
        last == {i \in 1..Len(s) : ~blank(i) /\ blank(i + 1)}
    IN  [j \in 1..Cardinality(first) |-> SubSeq(s, Nth(first, j), Nth(last, j))]

RECURSIVE Join(_, _)
\* sep.join(items)
Join(sep, items) ==
    IF items = <<>> THEN <<>>
    ELSE IF Len(items) = 1 THEN items[1]
    ELSE items[1] \o sep \o Join(sep, Tail(items))

\* a < b for two str: by code point, a proper prefix first
StrLess(a, b) ==
    \/ /\ Len(a) < Len(b)
       /\ SubSeq(b, 1, Len(a)) = a
    \/ \E i \in 1..Len(a) :
          /\ i <= Len(b)
          /\ SubSeq(a, 1, i - 1) = SubSeq(b, 1, i - 1)
          /\ a[i] < b[i]

RECURSIVE Sorted(_)
\* sorted(S) of a set of str
Sorted(S) ==
    IF S = {} THEN <<>>
    ELSE LET m == CHOOSE x \in S : \A y \in S : y = x \/ StrLess(x, y)
         IN  <<m>> \o Sorted(S \ {m})

\* the elements of a list
Range(items) == {items[i] : i \in 1..Len(items)}

RECURSIVE NonEmptyOnly(_)
\* [i for i in items if i]: an empty str is falsy
NonEmptyOnly(items) ==
    IF items = <<>> THEN <<>>
    ELSE (IF Head(items) # <<>> THEN <<Head(items)>> ELSE <<>>)
             \o NonEmptyOnly(Tail(items))

\* items[:n]
Take(items, n) == SubSeq(items, 1, IF n < Len(items) THEN n ELSE Len(items))

-----------------------------------------------------------------------------
(* String literals of src/main.py *)

\* "I'm here! Ask me anything."
EMPTY_REPLY ==
    <<73, 39, 109, 32, 104, 101, 114, 101, 33, 32, 65, 115, 107, 32, 109, 101,
      32, 97, 110, 121, 116, 104, 105, 110, 103, 46>>

\* "hello", "hi", "hey"
GREETINGS == {<<104, 101, 108, 108, 111>>, <<104, 105>>, <<104, 101, 121>>}

\* "Hey there! How can I help you today?"
GREETING_REPLY ==
    <<72, 101, 121, 32, 116, 104, 101, 114, 101, 33, 32, 72, 111, 119, 32, 99,
      97, 110, 32, 73, 32, 104, 101, 108, 112, 32, 121, 111, 117, 32, 116, 111,
      100, 97, 121, 63>>

\* "/help"
SLASH_HELP == <<47, 104, 101, 108, 112>>

\* "help"
HELP == <<104, 101, 108, 112>>

\* "I can answer questions, summarize, or brainstorm ideas. Just type your message!"
HELP_REPLY ==
    <<73, 32, 99, 97, 110, 32, 97, 110, 115, 119, 101, 114, 32, 113, 117, 101,
      115, 116, 105, 111, 110, 115, 44, 32, 115, 117, 109, 109, 97, 114, 105,
      122, 101, 44, 32, 111, 114, 32, 98, 114, 97, 105, 110, 115, 116, 111, 114,
      109, 32, 105, 100, 101, 97, 115, 46, 32, 74, 117, 115, 116, 32, 116, 121,
      112, 101, 32, 121, 111, 117, 114, 32, 109, 101, 115, 115, 97, 103, 101, 33>>

\* "/summarize"
SLASH_SUMMARIZE == <<47, 115, 117, 109, 109, 97, 114, 105, 122, 101>>

\* "Summary: "
SUMMARY_PREFIX == <<83, 117, 109, 109, 97, 114, 121, 58, 32>>

\* "/todo"
SLASH_TODO == <<47, 116, 111, 100, 111>>

\* " ", the separator of prompt.split(" ")
SPACE == <<32>>

\* "\n"
NEWLINE == <<10>>

\* the bullet prefix: U+2022 and a space
BULLET == <<8226, 32>>

\* the checklist header: "Here", U+2019 (a typographic apostrophe), "s your checklist:", "\n"
CHECKLIST_PREFIX ==
    <<72, 101, 114, 101, 8217, 115, 32, 121, 111, 117, 114, 32, 99, 104, 101,
      99, 107, 108, 105, 115, 116, 58, 10>>

\* "Provide items after /todo"
TODO_EMPTY_REPLY ==
    <<80, 114, 111, 118, 105, 100, 101, 32, 105, 116, 101, 109, 115, 32, 97,
      102, 116, 101, 114, 32, 47, 116, 111, 100, 111>>

\* "You said: '"
SAID_PREFIX == <<89, 111, 117, 32, 115, 97, 105, 100, 58, 32, 39>>

\* "'. Here's a helpful thought: " (an ASCII apostrophe in "Here's")
THOUGHT_INFIX ==
    <<39, 46, 32, 72, 101, 114, 101, 39, 115, 32, 97, 32, 104, 101, 108, 112,
      102, 117, 108, 32, 116, 104, 111, 117, 103, 104, 116, 58, 32>>

\* " " and U+2026, the ellipsis marker of summarize
ELLIPSIS == <<32, 8230>>

\* the characters of '.,!?'
PUNCTUATION == {46, 44, 33, 63}

\* "key points ", U+2192, " "
KEY_POINTS_PREFIX ==
    <<107, 101, 121, 32, 112, 111, 105, 110, 116, 115, 32, 8594, 32>>

\* ", "
COMMA_SPACE == <<44, 32>>

\* "sounds interesting!"
NO_KEYS_REPLY ==
    <<115, 111, 117, 110, 100, 115, 32, 105, 110, 116, 101, 114, 101, 115, 116,
      105, 110, 103, 33>>

\* summarize keeps at most this many words
SUMMARY_WORDS == 12

\* reflect keeps the words longer than this
KEY_MIN_LEN == 5

\* reflect lists at most this many words
KEY_LIMIT == 6

-----------------------------------------------------------------------------
(* The text utilities and the reply engine *)

summarize(text) ==
    LET words == SplitWhitespace(text)
    IN  IF Len(words) <= SUMMARY_WORDS
        THEN text
        ELSE Join(SPACE, Take(words, SUMMARY_WORDS)) \o ELLIPSIS

\* reflect_words without the strip of punctuation
reflect_words_unstripped(text) == SplitWhitespace(text)

\* words = [w.strip('.,!?') for w in text.split()]
reflect_words(text) ==
    LET ws == SplitWhitespace(text)
    IN  [i \in 1..Len(ws) |-> Strip(ws[i], PUNCTUATION)]

\* sorted(set([w for w in words if len(w) > 5]))[:6]
reflect_keys(text) ==
    LET words == reflect_words(text)
    IN  Take(Sorted({w \in Range(words) : Len(w) > KEY_MIN_LEN}), KEY_LIMIT)

reflect(text) ==
    LET key == Join(COMMA_SPACE, reflect_keys(text))
    IN  IF key # <<>>
        THEN KEY_POINTS_PREFIX \o key
        ELSE NO_KEYS_REPLY

\* todo_items without the [1:] that drops the command
todo_items_keep_command(p) ==
    LET pieces == SplitSep(p, 32)
    IN  [i \in 1..Len(pieces) |-> Strip(pieces[i], WHITESPACE)]

\* items = [i.strip() for i in prompt.split(" ")[1:]]
todo_items(p) ==
    LET pieces == Tail(SplitSep(p, 32))
    IN  [i \in 1..Len(pieces) |-> Strip(pieces[i], WHITESPACE)]

\* bullets = "\n".join(f"(bullet) {i}" for i in items if i)
todo_bullets(p) ==
    LET kept == NonEmptyOnly(todo_items(p))
    IN  Join(NEWLINE, [i \in 1..Len(kept) |-> BULLET \o kept[i]])

\* the greeting test: any(g in lower for g in ["hello", "hi", "hey"])
is_greeting(lower) == \E g \in GREETINGS : Contains(lower, g)

\* is_help with only its first disjunct
is_help_prefix_only(lower) == StartsWith(lower, SLASH_HELP)

\* the help test: lower.startswith("/help") or "help" in lower
is_help(lower) == StartsWith(lower, SLASH_HELP) \/ Contains(lower, HELP)

generate_ai_reply(raw) ==
    LET p == Strip(raw, WHITESPACE)
        lower == Lower(p)
    IN  IF p = <<>> THEN EMPTY_REPLY
        ELSE IF is_greeting(lower) THEN GREETING_REPLY
        ELSE IF is_help(lower) THEN HELP_REPLY
        ELSE IF StartsWith(lower, SLASH_SUMMARIZE)
             THEN SUMMARY_PREFIX
                      \o summarize(Strip(Drop(p, Len(SLASH_SUMMARIZE)), WHITESPACE))
        ELSE IF StartsWith(lower, SLASH_TODO)
             THEN (IF todo_bullets(p) # <<>>
                   THEN CHECKLIST_PREFIX \o todo_bullets(p)
                   ELSE TODO_EMPTY_REPLY)
        ELSE SAID_PREFIX \o p \o THOUGHT_INFIX \o reflect(p)

-----------------------------------------------------------------------------
(* ObjectIds and the document store *)

\* an ObjectId is 12 bytes, 24 hexadecimal digits
OBJECT_ID_DIGITS == 24

\* the hexadecimal digit characters: 0-9, a-f, A-F
IsHexChar(c) == c \in (48..57) \cup (97..102) \cup (65..70)

\* the value of a hexadecimal digit character
HexVal(c) == IF c \in 48..57 THEN c - 48 ELSE IF c \in 97..102 THEN c - 87 ELSE c - 55

\* the lower-case character of a digit value
HexChar(d) == IF d < 10 THEN 48 + d ELSE 87 + d

\* the characters bytes.fromhex skips between two bytes: ASCII whitespace
HEX_BLANKS == {9, 10, 11, 12, 13, 32}

\* the positions of v that hold a digit of bytes.fromhex(v): all but the blanks
HexPositions(v) == {i \in 1..Len(v) : v[i] \notin HEX_BLANKS}

\* bytes.fromhex(v) succeeds: every character that is not a blank is a
\* hexadecimal digit, and the digits come in adjacent pairs (a blank may stand
\* between two bytes, never between the two digits of one byte)
FromHexOk(v) ==
    LET digits == HexPositions(v)
        blanks == {0} \cup ((1..Len(v)) \ digits)
        \* the last blank before position i (0 when there is none): the run
        \* of digits that holds i starts after it
        before(i) == CHOOSE b \in blanks : b < i /\ \A e \in blanks : e < i => e <= b
    IN  \A i \in digits :
            /\ IsHexChar(v[i])
            /\ (i - before(i)) % 2 = 1 => (i + 1) \in digits

\* ObjectId.is_valid(v) for a str v: ObjectId(v) does not raise, that is, v
\* has 24 characters and bytes.fromhex(v) succeeds
is_valid(v) == Len(v) = OBJECT_ID_DIGITS /\ FromHexOk(v)

\* ObjectId(v) for a valid str v: bytes.fromhex(v), the digits' values whatever
\* their case; fewer than 24 digits when v holds blanks
ObjectId(v) ==
    LET digits == HexPositions(v)
    IN  IF digits = 1..Len(v) THEN [n \in 1..Len(v) |-> HexVal(v[n])]
        ELSE [n \in 1..Cardinality(digits) |-> HexVal(v[Nth(digits, n)])]

\* str(oid): 24 lower-case hexadecimal digits
ObjectIdStr(oid) == [i \in 1..Len(oid) |-> HexChar(oid[i])]

\* the ObjectId the store gives its n-th document: unique, and larger for a
\* later document
NewObjectId(n) ==
    <<6, 5, 15, 0, 12, 1, 10, 2, 11, 3, 13, 4, 14, 5, 15, 6, 10, 7, 11, 8, 12, 9>>
        \o <<n \div 16, n % 16>>

\* serialize_doc: every ObjectId value of the document becomes its str; the
\* documents here hold one ObjectId, under "_id"
serialize_doc(doc) == [doc EXCEPT !._id = ObjectIdStr(doc._id)]

\* create_document(collection_name, data): the stored document, data with the
\* store's _id and creation time
NewDocument(data, n) ==
    [k \in DOMAIN data \cup {"_id", "created_at"} |->
        IF k = "_id" THEN NewObjectId(n)
        ELSE IF k = "created_at" THEN n
        ELSE data[k]]

\* cursor.sort("created_at", 1): ascending creation time
SortByCreatedAt(docs) ==
    [i \in 1..Len(docs) |->
        CHOOSE d \in Range(docs) :
            Cardinality({e \in Range(docs) : e.created_at < d.created_at}) = i - 1]

\* out.sort(key=lambda x: x["id"], reverse=True)
SortByIdDescending(items) ==
    [i \in 1..Len(items) |->
        CHOOSE d \in Range(items) :
            Cardinality({e \in Range(items) : StrLess(d.id, e.id)}) = i - 1]

\* db["conversation"].find_one({"_id": oid}) finds a document
ConversationExists(oid) == \E i \in 1..Len(conversation) : conversation[i]._id = oid

\* the limit of get_documents("conversation", {}, limit=100)
LIST_LIMIT == 100

-----------------------------------------------------------------------------
(* The requests *)

\* a request as received; pc is "find" before the lookup of add_message,
\* "insert" before its create_document, "done" once the response is sent.
\* status is the HTTP status of the response (0 while the request runs),
\* wrote the _ids of the messages the request inserted, lookups the number of
\* find_one calls it made, found the number of them that returned a
\* conversation, raised_at the store call that raised ("" when none did),
\* returned the JSON objects of the response body.
Request(op, conversation_id, role, content) ==
    [op |-> op, conversation_id |-> conversation_id, content |-> content,
     msg |-> [role |-> role, content |-> content],
     pc |-> "find", status |-> 0, detail |-> "",
     wrote |-> <<>>, lookups |-> 0, found |-> 0, raised_at |-> "",
     returned |-> <<>>]

\* raise HTTPException(status_code, detail)
Raise(c, status_code, detail) ==
    [c EXCEPT !.pc = "done", !.status = status_code, !.detail = detail]

\* a call of the store raises: no handler catches it, the response is the
\* framework's 500 "Internal Server Error"
StoreRaises(c, store_call) ==
    [Raise(c, 500, "Internal Server Error") EXCEPT !.raised_at = store_call]

Return(c, body) ==
    [c EXCEPT !.pc = "done", !.status = 200, !.returned = body]

\* Checked without the ObjectId.is_valid test
Checked_db_only(c) ==
    IF ~db THEN Raise(c, 500, "Database not available") ELSE c

\* the checks every handler of a conversation starts with
Checked(c) ==
    IF ~db THEN Raise(c, 500, "Database not available")
    ELSE IF ~is_valid(c.conversation_id) THEN Raise(c, 400, "Invalid conversation id")
    ELSE c

\* "Hi"
CONTENT_HI == <<72, 105>>

\* "/todo a"
CONTENT_TODO == <<47, 116, 111, 100, 111, 32, 97>>

\* the message texts the clients send
Contents == {CONTENT_HI, CONTENT_TODO}

\* "chat"
TITLE == <<99, 104, 97, 116>>

\* a str in upper case (a client may write the digits of an id in either case)
UpperCase(s) == [i \in 1..Len(s) |-> IF s[i] \in 97..122 THEN s[i] - 32 ELSE s[i]]

\* "ffffffffffffffffffffffff": well-formed, the id of no conversation
UNKNOWN_ID == [i \in 1..24 |-> 102]

\* "ff ff ff ff ff ff ff ff ": 24 characters that bytes.fromhex reads as 8
\* bytes, so ObjectId.is_valid accepts it; the id of no conversation
SPACED_ID == [i \in 1..24 |-> IF i % 3 = 0 THEN 32 ELSE 102]

\* "00000000000000000000000g": 24 characters, the last one no hexadecimal digit
MALFORMED_ID == [i \in 1..24 |-> IF i = 24 THEN 103 ELSE 48]

\* the conversation ids the clients send to add_message and get_messages:
\* the ids the API has handed out, an unknown one and a malformed one
HandedOutIds ==
    {ObjectIdStr(conversation[i]._id) : i \in 1..Len(conversation)}
        \cup {UNKNOWN_ID, MALFORMED_ID}

\* the conversation ids the clients send to send_message: those, the ids the
\* API has handed out written in upper case, and the unknown id with blanks
RequestIds ==
    HandedOutIds
        \cup {UpperCase(ObjectIdStr(conversation[i]._id)) : i \in 1..Len(conversation)}
        \cup {SPACED_ID}

\* the bag of requests with one more request c
Received(c) == calls (+) SetToBag({c})

\* the bag of requests with request c having become d
Stepped(c, d) == (calls (-) SetToBag({c})) (+) SetToBag({d})

\* the requests, each once
Requests == BagToSet(calls)

Init ==
    /\ db \in BOOLEAN
    /\ conversation = <<>>
    /\ message = <<>>
    /\ inserted = 0
    /\ calls = EmptyBag
    /\ prompt = <<>>
    /\ fn = "none"
    /\ out = <<>>

\* POST /api/conversations
create_conversation(title, created_by) ==
    LET c == Request("create_conversation", <<>>, "", <<>>)
        data == [title |-> title, created_by |-> created_by]
        doc == NewDocument(data, inserted)
    IN  /\ BagCardinality(calls) < MaxCalls
        /\ \/ /\ ~db
              /\ calls' = Received(Raise(c, 500, "Database not available"))
              /\ UNCHANGED <<conversation, inserted>>
           \/ /\ db
              /\ conversation' = Append(conversation, doc)
              /\ inserted' = inserted + 1
              /\ calls' = Received(Return(c, << [id |-> ObjectIdStr(doc._id), title |-> title,
                                   created_by |-> created_by] >>))
           \/ /\ db
              /\ calls' = Received(StoreRaises(c, "create_document"))
              /\ UNCHANGED <<conversation, inserted>>
        /\ UNCHANGED <<db, message, textVars>>

\* the response body of GET /api/conversations
ConversationList ==
    LET docs == Take(conversation, LIST_LIMIT)
    IN  SortByIdDescending(
            [i \in 1..Len(docs) |->
                [id |-> serialize_doc(docs[i])._id, title |-> docs[i].title,
                 created_by |-> docs[i].created_by]])

\* GET /api/conversations: get_documents returns the documents or raises
list_conversations ==
    LET c == Request("list_conversations", <<>>, "", <<>>)
    IN  /\ BagCardinality(calls) < MaxCalls
        /\ \/ /\ ~db
              /\ calls' = Received(Raise(c, 500, "Database not available"))
           \/ /\ db
              /\ calls' = Received(Return(c, ConversationList))
           \/ /\ db
              /\ calls' = Received(StoreRaises(c, "get_documents"))
        /\ UNCHANGED <<db, conversation, message, inserted, textVars>>

\* the response body of GET /api/conversations/{conversation_id}/messages
MessageList(conversation_id) ==
    LET docs == SortByCreatedAt(
                    SelectSeq(message, LAMBDA d : d.conversation_id = conversation_id))
    IN  [i \in 1..Len(docs) |->
            [id |-> serialize_doc(docs[i])._id,
             conversation_id |-> docs[i].conversation_id,
             role |-> docs[i].role, content |-> docs[i].content]]

\* GET /api/conversations/{conversation_id}/messages: after the checks,
\* db["message"].find(...).sort(...) returns the documents or raises
get_messages(conversation_id) ==
    LET c == Checked(Request("get_messages", conversation_id, "", <<>>))
    IN  /\ BagCardinality(calls) < MaxCalls
        /\ \/ /\ c.pc = "done"
              /\ calls' = Received(c)
           \/ /\ c.pc # "done"
              /\ calls' = Received(Return(c, MessageList(conversation_id)))
           \/ /\ c.pc # "done"
              /\ calls' = Received(StoreRaises(c, "find"))
        /\ UNCHANGED <<db, conversation, message, inserted, textVars>>

\* POST /api/conversations/{conversation_id}/messages: the request arrives
\* and passes or fails the checks before the lookup
add_message(conversation_id, role, content) ==
    /\ BagCardinality(calls) < MaxCalls
    /\ calls' = Received(Checked(Request("add_message", conversation_id, role, content)))
    /\ UNCHANGED <<db, conversation, message, inserted, textVars>>

\* POST /api/conversations/{conversation_id}/send: the request arrives, passes
\* or fails the checks, and calls add_message with the user message
send_message(conversation_id, content) ==
    /\ BagCardinality(calls) < MaxCalls
    /\ calls' = Received(Checked(Request("send_message", conversation_id, "user", content)))
    /\ UNCHANGED <<db, conversation, message, inserted, textVars>>

\* FoundOrNotFound without the "if not conv" test
FoundOrNotFound_unchecked(c, found) ==
    [c EXCEPT !.pc = "insert", !.lookups = @ + 1, !.found = IF found THEN @ + 1 ELSE @]

\* add_message: the conversation found by the lookup lets the insert follow
FoundOrNotFound(c, found) ==
    IF found THEN [c EXCEPT !.pc = "insert", !.lookups = @ + 1, !.found = @ + 1]
    ELSE Raise([c EXCEPT !.lookups = @ + 1], 404, "Conversation not found")

\* add_message, "Ensure conversation exists": the lookup of request c, which
\* returns the conversation, returns None, or raises
find_conversation(c) ==
    /\ c.pc = "find"
    /\ \/ calls' = Stepped(c,
              FoundOrNotFound(c, ConversationExists(ObjectId(c.conversation_id))))
       \/ calls' = Stepped(c, StoreRaises([c EXCEPT !.lookups = @ + 1], "find_one"))
    /\ UNCHANGED <<db, conversation, message, inserted, textVars>>

\* assistant_msg with the user's text in place of the generated reply
assistant_msg_echo(content) == [role |-> "assistant", content |-> content]

\* send_message: the MessageCreate of the assistant's reply
assistant_msg(content) == [role |-> "assistant", content |-> generate_ai_reply(content)]

\* AfterInsert that returns after the first insert, the reply never added
AfterInsert_no_reply(c, doc) ==
    Return([c EXCEPT !.wrote = Append(@, doc._id)],
           << [id |-> ObjectIdStr(doc._id), conversation_id |-> c.conversation_id,
               role |-> c.msg.role, content |-> c.msg.content] >>)

\* what follows a successful create_document("message", msg_data) of request
\* c: send_message goes on to add the assistant's message after the user's,
\* every other add_message returns the created message
AfterInsert(c, doc) ==
    LET created == [id |-> ObjectIdStr(doc._id), conversation_id |-> c.conversation_id,
                    role |-> c.msg.role, content |-> c.msg.content]
        d == [c EXCEPT !.wrote = Append(@, doc._id)]
    IN  IF c.op = "send_message" /\ c.wrote = <<>>
        THEN [d EXCEPT !.msg = assistant_msg(c.content), !.pc = "find"]
        ELSE Return(d, <<created>>)

\* add_message: create_document("message", msg_data) of request c, which
\* inserts the message or raises
create_message(c) ==
    LET msg_data == [role |-> c.msg.role, content |-> c.msg.content,
                     conversation_id |-> c.conversation_id]
        doc == NewDocument(msg_data, inserted)
    IN  /\ c.pc = "insert"
        /\ \/ /\ message' = Append(message, doc)
              /\ inserted' = inserted + 1
              /\ calls' = Stepped(c, AfterInsert(c, doc))
           \/ /\ calls' = Stepped(c, StoreRaises(c, "create_document"))
              /\ UNCHANGED <<message, inserted>>
        /\ UNCHANGED <<db, conversation, textVars>>

Next ==
    \/ create_conversation(TITLE, "None")
    \/ list_conversations
    \/ \E id \in HandedOutIds : get_messages(id)
    \/ \E id \in HandedOutIds, role \in {"user", "assistant"} :
           add_message(id, role, CONTENT_HI)
    \/ \E id \in RequestIds, content \in Contents : send_message(id, content)
    \/ \E c \in Requests : find_conversation(c)
    \/ \E c \in Requests : create_message(c)

Spec == Init /\ [][Next]_vars

-----------------------------------------------------------------------------
(* The text functions applied to bounded inputs *)

\* "/summarize one two three four five six seven eight nine ten eleven twelve thirteen"
EX_SUMMARIZE_13 ==
    <<47, 115, 117, 109, 109, 97, 114, 105, 122, 101, 32, 111, 110, 101, 32,
      116, 119, 111, 32, 116, 104, 114, 101, 101, 32, 102, 111, 117, 114, 32,
      102, 105, 118, 101, 32, 115, 105, 120, 32, 115, 101, 118, 101, 110, 32,
      101, 105, 103, 104, 116, 32, 110, 105, 110, 101, 32, 116, 101, 110, 32,
      101, 108, 101, 118, 101, 110, 32, 116, 119, 101, 108, 118, 101, 32, 116,
      104, 105, 114, 116, 101, 101, 110>>

\* "healthy"
EX_HEALTHY == <<104, 101, 97, 108, 116, 104, 121>>

\* "/todo buy milk, walk dog"
EX_TODO ==
    <<47, 116, 111, 100, 111, 32, 98, 117, 121, 32, 109, 105, 108, 107, 44, 32,
      119, 97, 108, 107, 32, 100, 111, 103>>

\* "/Todo  a\tb ": capitals, a double space, a tab inside a piece
EX_TODO_BLANKS == <<47, 84, 111, 100, 111, 32, 32, 97, 9, 98, 32>>

\* "\u212aEY \u00c9COLE": KELVIN SIGN, E, Y, a space, E with acute, C, O, L, E;
\* lower() gives "key \u00e9cole"
EX_KELVIN == <<8490, 69, 89, 32, 201, 67, 79, 76, 69>>

\* "/TODO \u0130\u017d, \u0416": capitals outside ASCII; lower() is one
\* character longer
EX_TODO_CAPITALS == <<47, 84, 79, 68, 79, 32, 304, 381, 44, 32, 1046>>

Examples == {EX_SUMMARIZE_13, EX_HEALTHY, EX_TODO, EX_TODO_BLANKS, EX_KELVIN, EX_TODO_CAPITALS}

Vocabulary ==
    { SLASH_SUMMARIZE,
      SLASH_TODO,
      SPACE,
      \* "Hi"
      <<72, 105>>,
      \* "H\u0130": H and capital I with dot above; lower() gives "hi\u0307"
      <<72, 304>>,
      \* "helpful"
      <<104, 101, 108, 112, 102, 117, 108>>,
      \* " one two  three four five six seven"
      <<32, 111, 110, 101, 32, 116, 119, 111, 32, 32, 116, 104, 114, 101, 101,
        32, 102, 111, 117, 114, 32, 102, 105, 118, 101, 32, 115, 105, 120, 32,
        115, 101, 118, 101, 110>>,
      \* " zebras! ,yellow walnut, walnut violet?"
      <<32, 122, 101, 98, 114, 97, 115, 33, 32, 44, 121, 101, 108, 108, 111,
        119, 32, 119, 97, 108, 110, 117, 116, 44, 32, 119, 97, 108, 110, 117,
        116, 32, 118, 105, 111, 108, 101, 116, 63>>,
      \* " Orange purple. marble nutmeg"
      <<32, 79, 114, 97, 110, 103, 101, 32, 112, 117, 114, 112, 108, 101, 46,
        32, 109, 97, 114, 98, 108, 101, 32, 110, 117, 116, 109, 101, 103>> }

RECURSIVE Concat(_)
Concat(pieces) ==
    IF pieces = <<>> THEN <<>> ELSE Head(pieces) \o Concat(Tail(pieces))

Inputs ==
    Examples \cup
    { Concat(ps) : ps \in UNION { [1..n -> Vocabulary] : n \in 0..MaxPieces } }

InitText ==
    /\ prompt \in Inputs
    /\ fn = "none"
    /\ out = <<>>
    /\ db = TRUE
    /\ conversation = <<>>
    /\ message = <<>>
    /\ inserted = 0
    /\ calls = EmptyBag

CallGenerateAiReply ==
    /\ fn = "none"
    /\ fn' = "generate_ai_reply"
    /\ out' = generate_ai_reply(prompt)
    /\ UNCHANGED <<prompt, storeVars>>

CallSummarize ==
    /\ fn = "none"
    /\ fn' = "summarize"
    /\ out' = summarize(prompt)
    /\ UNCHANGED <<prompt, storeVars>>

CallReflect ==
    /\ fn = "none"
    /\ fn' = "reflect"
    /\ out' = reflect(prompt)
    /\ UNCHANGED <<prompt, storeVars>>

NextText == CallGenerateAiReply \/ CallSummarize \/ CallReflect

SpecText == InitText /\ [][NextText]_vars

-----------------------------------------------------------------------------
(* Properties of the message exchange (Spec) *)

Sends == {c \in Requests : c.op = "send_message"}

\* generate_ai_reply of each content the clients send
ReplyTo == [content \in Contents |-> generate_ai_reply(content)]

\* the stored message with this _id
Stored(oid) == CHOOSE d \in Range(message) : d._id = oid

IsStored(oid) == \E d \in Range(message) : d._id = oid

\* the place of the message with this _id in the collection, in insertion order
PlaceOf(oid) == CHOOSE k \in 1..Len(message) : message[k]._id = oid

\* the place of the message with this _id in the listing of its conversation
ListedAt(listing, oid) ==
    CHOOSE k \in 1..Len(listing) : listing[k].id = ObjectIdStr(oid)

IsListed(listing, oid) == \E k \in 1..Len(listing) : listing[k].id = ObjectIdStr(oid)

\* the messages of the collection are those the requests inserted, one each
WritesAccounted ==
    /\ \A c \in Requests : \A k \in 1..Len(c.wrote) : IsStored(c.wrote[k])
    /\ \A d \in Range(message) :
           \E c \in Requests : \E k \in 1..Len(c.wrote) : c.wrote[k] = d._id
    /\ \A c \in Requests : Len(c.wrote) > 0 => CopiesIn(c, calls) = 1

\* C1: a send_message call that succeeded inserted exactly two messages into
\* the conversation it names: first one of role user with the request's
\* content, then one of role assistant with generate_ai_reply of that content;
\* the listing of the conversation shows the first before the second, and the
\* call returned the record of the second.
C1_SendInsertsUserThenReply ==
    \A c \in Sends :
        c.status = 200 =>
            LET listing == MessageList(c.conversation_id)
            IN  /\ is_valid(c.conversation_id)
                /\ ConversationExists(ObjectId(c.conversation_id))
                /\ Len(c.wrote) = 2
                /\ IsStored(c.wrote[1]) /\ IsStored(c.wrote[2])
                /\ Stored(c.wrote[1]).role = "user"
                /\ Stored(c.wrote[1]).content = c.content
                /\ Stored(c.wrote[1]).conversation_id = c.conversation_id
                /\ Stored(c.wrote[2]).role = "assistant"
                /\ Stored(c.wrote[2]).content = ReplyTo[c.content]
                /\ Stored(c.wrote[2]).conversation_id = c.conversation_id
                /\ IsListed(listing, c.wrote[1]) /\ IsListed(listing, c.wrote[2])
                /\ ListedAt(listing, c.wrote[1]) < ListedAt(listing, c.wrote[2])
                /\ c.returned =
                       << [id |-> ObjectIdStr(c.wrote[2]),
                           conversation_id |-> c.conversation_id,
                           role |-> "assistant",
                           content |-> ReplyTo[c.content]] >>

\* a send_message call succeeded with a content whose reply is not the content
C1_Witness ==
    \E ci \in Sends :
        /\ ci.status = 200
        /\ Len(ci.wrote) = 2
        /\ ReplyTo[ci.content] # ci.content
        /\ Len(MessageList(ci.conversation_id)) >= 2

\* the request names a well-formed id that is the id of no conversation
NamesNoConversation(c) ==
    /\ is_valid(c.conversation_id)
    /\ ~ConversationExists(ObjectId(c.conversation_id))

\* C2 (as amended): send_message with a well-formed id of no existing
\* conversation writes no message; with the database handle available it
\* ends at its first lookup, with 404 "Conversation not found" when the
\* lookup answers and with 500 when the lookup raises.
C2_UnknownConversationNotFound ==
    \A ci \in Sends :
        NamesNoConversation(ci) =>
            /\ ci.wrote = <<>>
            /\ ci.found = 0
            /\ (db /\ ci.pc = "done") =>
                   /\ ci.lookups = 1
                   /\ \/ /\ ci.status = 404
                         /\ ci.detail = "Conversation not found"
                         /\ ci.raised_at = ""
                      \/ /\ ci.status = 500
                         /\ ci.raised_at = "find_one"
            /\ (~db /\ ci.pc = "done") =>
                   /\ ci.status = 500
                   /\ ci.detail = "Database not available"
                   /\ ci.lookups = 0
            /\ WritesAccounted

\* C2 as stated: send_message with a well-formed id of no existing
\* conversation fails with 404 and writes no message.
C2_UnknownConversationAlways404 ==
    \A ci \in Sends :
        (NamesNoConversation(ci) /\ ci.pc = "done") =>
            /\ ci.status = 404
            /\ ci.wrote = <<>>

\* send_message calls for an unknown id of 24 digits and for one holding
\* blanks ended 404 while a conversation existed
C2_Witness ==
    /\ conversation # <<>>
    /\ \E ci, cj \in Sends :
           /\ ci.conversation_id = UNKNOWN_ID /\ cj.conversation_id = SPACED_ID
           /\ NamesNoConversation(ci) /\ NamesNoConversation(cj)
           /\ ci.status = 404 /\ cj.status = 404

\* C3: every stored message's conversation_id is the id of a conversation in
\* the store, and a request inserted each of its messages after a lookup of
\* its own that found the conversation.
C3_MessagesReferToConversations ==
    /\ \A d \in Range(message) :
           /\ is_valid(d.conversation_id)
           /\ ConversationExists(ObjectId(d.conversation_id))
    /\ \A ci \in Requests :
           /\ Len(ci.wrote) <= ci.found
           /\ ci.found <= ci.lookups
           /\ ci.pc = "insert" => ConversationExists(ObjectId(ci.conversation_id))
    /\ WritesAccounted

\* messages are stored, and requests for unknown and malformed ids were made
C3_Witness ==
    /\ Len(message) >= 2
    /\ \E ci \in Requests :
           ci.op \in {"add_message", "send_message"} /\ ci.status = 404

\* C4: each send_message call creates its user message strictly before its
\* assistant message, and the assistant message's content is
\* generate_ai_reply of that call's own content, however the inserts of
\* concurrent calls interleave.
C4_PairOrderUnderInterleaving ==
    \A c \in Sends :
            /\ Len(c.wrote) <= 2
            /\ Len(c.wrote) >= 1 =>
                   /\ Stored(c.wrote[1]).role = "user"
                   /\ Stored(c.wrote[1]).content = c.content
            /\ Len(c.wrote) = 2 =>
                   /\ Stored(c.wrote[2]).role = "assistant"
                   /\ Stored(c.wrote[2]).content = ReplyTo[c.content]
                   /\ Stored(c.wrote[1]).created_at < Stored(c.wrote[2]).created_at
                   /\ PlaceOf(c.wrote[1]) < PlaceOf(c.wrote[2])

\* two send_message calls for one conversation, with contents of different
\* replies, interleaved as user1, user2, assistant2, assistant1
C4_Witness ==
    \E ci, cj \in Sends :
        /\ ci # cj
        /\ ci.conversation_id = cj.conversation_id
        /\ ReplyTo[ci.content] # ReplyTo[cj.content]
        /\ Len(ci.wrote) = 2 /\ Len(cj.wrote) = 2
        /\ Stored(ci.wrote[1]).created_at < Stored(cj.wrote[1]).created_at
        /\ Stored(cj.wrote[1]).created_at < Stored(cj.wrote[2]).created_at
        /\ Stored(cj.wrote[2]).created_at < Stored(ci.wrote[2]).created_at

\* the insert of the assistant message of this send_message call raised
AssistantInsertFailed(c) ==
    /\ c.pc = "done"
    /\ c.status = 500
    /\ c.msg.role = "assistant"
    /\ c.raised_at = "create_document"
    /\ c.found = 2

\* the lookup before the assistant insert of this send_message call did not
\* let the insert follow: it raised (conversations are never deleted, so it
\* cannot answer None)
AssistantLookupFailed(c) ==
    /\ c.pc = "done"
    /\ c.status = 500
    /\ c.msg.role = "assistant"
    /\ c.raised_at = "find_one"
    /\ c.lookups = 2 /\ c.found = 1

\* a send_message call whose assistant insert raised failed with an error,
\* its user message is stored and no assistant message of it is
PartialWriteKept ==
    \A ci \in Sends :
        AssistantInsertFailed(ci) =>
            /\ Len(ci.wrote) = 1
            /\ IsStored(ci.wrote[1])
            /\ Stored(ci.wrote[1]).role = "user"
            /\ Stored(ci.wrote[1]).content = ci.content

\* C5 (as amended): when the assistant insert fails the call fails, the user
\* message stays and no assistant message of the call exists; a user message
\* of send_message without its assistant message is in the store only after
\* such a failed call, after a call whose lookup before the assistant insert
\* raised, or while its call is still running between the two inserts.
C5_PartialWriteOnlyByFailure ==
    /\ PartialWriteKept
    /\ WritesAccounted
    /\ \A ci \in Sends :
           Len(ci.wrote) = 1 =>
               \/ AssistantInsertFailed(ci)
               \/ AssistantLookupFailed(ci)
               \/ ci.pc # "done"

\* C5 as stated: a user message of send_message without its assistant message
\* is in the store only after a call whose assistant insert failed.
C5_PartialWriteOnlyAfterFailedCall ==
    /\ PartialWriteKept
    /\ \A ci \in Sends : Len(ci.wrote) = 1 => AssistantInsertFailed(ci)

\* one send_message call failed at its assistant insert, another at the
\* lookup before it, and each left its user message
C5_Witness ==
    \E ci, cj \in Sends :
        /\ AssistantInsertFailed(ci) /\ Len(ci.wrote) = 1
        /\ AssistantLookupFailed(cj) /\ Len(cj.wrote) = 1

Guarded == {"send_message", "add_message", "get_messages"}

\* C6 (as amended): send_message, add_message and get_messages with a
\* malformed id end on arrival, before any lookup or insert, and write no
\* message; with the database handle available they fail with 400 "Invalid
\* conversation id", with db None they fail first with 500 "Database not
\* available".
C6_MalformedIdRejected ==
    /\ \A ci \in Requests :
           (ci.op \in Guarded /\ ~is_valid(ci.conversation_id)) =>
               /\ ci.pc = "done"
               /\ ci.lookups = 0
               /\ ci.found = 0
               /\ ci.wrote = <<>>
               /\ ci.returned = <<>>
               /\ ci.raised_at = ""
               /\ db =>
                      /\ ci.status = 400
                      /\ ci.detail = "Invalid conversation id"
               /\ ~db =>
                      /\ ci.status = 500
                      /\ ci.detail = "Database not available"
    /\ WritesAccounted

\* C6 as stated: the three handlers answer a malformed id with 400.
C6_MalformedIdAlways400 ==
    \A ci \in Requests :
        (ci.op \in Guarded /\ ~is_valid(ci.conversation_id)) =>
            /\ ci.status = 400
            /\ ci.lookups = 0
            /\ ci.wrote = <<>>

\* send_message and another of the three handlers rejected a malformed id
\* while a conversation existed
C6_Witness ==
    /\ conversation # <<>>
    /\ \E ci, cj \in Requests :
           /\ ci.op = "send_message" /\ cj.op \in Guarded \ {"send_message"}
           /\ ~is_valid(ci.conversation_id) /\ ~is_valid(cj.conversation_id)
           /\ ci.status = 400 /\ cj.status = 400

-----------------------------------------------------------------------------
(* Properties of the reply engine and the text utilities (SpecText) *)

\* the prompt as generate_ai_reply reads it: trimmed, case kept
Trimmed == Strip(prompt, WHITESPACE)

NoGreeting(lower) == \A g \in GREETINGS : ~Contains(lower, g)

MentionsHelp(lower) == StartsWith(lower, SLASH_HELP) \/ Contains(lower, HELP)

\* "Summary: one two three four five six seven eight nine ten eleven twelve (ellipsis)"
EX_SUMMARIZE_13_REPLY ==
    <<83, 117, 109, 109, 97, 114, 121, 58, 32, 111, 110, 101, 32, 116, 119, 111,
      32, 116, 104, 114, 101, 101, 32, 102, 111, 117, 114, 32, 102, 105, 118,
      101, 32, 115, 105, 120, 32, 115, 101, 118, 101, 110, 32, 101, 105, 103,
      104, 116, 32, 110, 105, 110, 101, 32, 116, 101, 110, 32, 101, 108, 101,
      118, 101, 110, 32, 116, 119, 101, 108, 118, 101, 32, 8230>>

\* "Summary: " and the first 12 words of the text after the prefix joined by
\* single spaces and the ellipsis marker, or that text itself when it has at
\* most 12 words
SummaryOf(p) ==
    LET text == Strip(Drop(p, Len(SLASH_SUMMARIZE)), WHITESPACE)
        words == SplitWhitespace(text)
    IN  SUMMARY_PREFIX \o
            (IF Len(words) <= 12 THEN text
             ELSE Join(SPACE, SubSeq(words, 1, 12)) \o ELLIPSIS)

\* C7: a prompt that starts with "/summarize" is answered by the summarize
\* rule: the thirteen-word example prompt gets "Summary: one two ... twelve
\* (ellipsis)", that is "Summary: " and the first 12 words of the text after
\* the prefix joined by single spaces and the ellipsis marker.
C7_SummarizeAnswersExample ==
    (fn = "generate_ai_reply" /\ prompt = EX_SUMMARIZE_13) =>
        /\ out = EX_SUMMARIZE_13_REPLY
        /\ out = SummaryOf(Trimmed)

\* "You said: 'healthy'. Here's a helpful thought: key points (arrow) healthy"
EX_HEALTHY_REPLY ==
    <<89, 111, 117, 32, 115, 97, 105, 100, 58, 32, 39, 104, 101, 97, 108, 116,
      104, 121, 39, 46, 32, 72, 101, 114, 101, 39, 115, 32, 97, 32, 104, 101,
      108, 112, 102, 117, 108, 32, 116, 104, 111, 117, 103, 104, 116, 58, 32,
      107, 101, 121, 32, 112, 111, 105, 110, 116, 115, 32, 8594, 32, 104, 101,
      97, 108, 116, 104, 121>>

\* every non-greeting prompt that starts with "/help" or contains "help" gets
\* the capability-description reply
HelpRuleFires ==
    (/\ Trimmed # <<>>
     /\ NoGreeting(Lower(Trimmed))
     /\ MentionsHelp(Lower(Trimmed))) => out = HELP_REPLY

\* C8 (as amended): the help rule fires for every prompt that, trimmed and
\* lowercased, does not match the greeting rule and starts with "/help" or
\* contains "help"; "healthy" does not contain "help" and gets the default
\* reflective reply.
C8_HelpRule ==
    fn = "generate_ai_reply" =>
        /\ HelpRuleFires
        /\ prompt = EX_HEALTHY => out = EX_HEALTHY_REPLY

\* C8 as stated: the same rule, and generate_ai_reply("healthy") returns the
\* capability-description reply.
C8_HealthyMatchesHelp ==
    fn = "generate_ai_reply" =>
        /\ HelpRuleFires
        /\ prompt = EX_HEALTHY => out = HELP_REPLY

\* a prompt with "help" inside a word, not at its start, was answered by the help rule
C8_Witness ==
    /\ fn = "generate_ai_reply"
    /\ Contains(Lower(Trimmed), HELP)
    /\ ~StartsWith(Lower(Trimmed), HELP)
    /\ ~StartsWith(Lower(Trimmed), SLASH_HELP)
    /\ NoGreeting(Lower(Trimmed))
    /\ out = HELP_REPLY

\* the prompt reaches the "/todo" rule: no earlier rule matches it
ReachesTodo(p) ==
    /\ p # <<>>
    /\ NoGreeting(Lower(p))
    /\ ~MentionsHelp(Lower(p))
    /\ ~StartsWith(Lower(p), SLASH_SUMMARIZE)
    /\ StartsWith(Lower(p), SLASH_TODO)

\* the pieces of p after the first, split on single spaces, each trimmed,
\* the empty ones discarded
ChecklistItems(p) ==
    LET pieces == SplitSep(p, 32)
        rest == [i \in 1..(Len(pieces) - 1) |-> Strip(pieces[i + 1], WHITESPACE)]
    IN  SelectSeq(rest, LAMBDA x : x # <<>>)

\* header, then one bullet line per item, in order, joined by newlines; the
\* provide-items message when there is no item
ChecklistReply(header, items) ==
    IF items = <<>> THEN TODO_EMPTY_REPLY
    ELSE header \o Join(NEWLINE, [i \in 1..Len(items) |-> <<8226, 32>> \o items[i]])

\* "Here's your checklist:\n" with an ASCII apostrophe
ASCII_CHECKLIST_PREFIX ==
    <<72, 101, 114, 101, 39, 115, 32, 121, 111, 117, 114, 32, 99, 104, 101, 99,
      107, 108, 105, 115, 116, 58, 10>>

\* "buy", "milk,", "walk", "dog"
EX_TODO_ITEMS ==
    << <<98, 117, 121>>, <<109, 105, 108, 107, 44>>, <<119, 97, 108, 107>>,
       <<100, 111, 103>> >>

\* C9 (as amended): for a prompt that reaches the "/todo" rule the reply is
\* the checklist header, spelt with the typographic apostrophe U+2019, and one
\* bullet line per non-empty trimmed piece after the first, in input order,
\* or the provide-items message; "/todo buy milk, walk dog" lists "buy",
\* "milk,", "walk", "dog".
C9_TodoRule ==
    fn = "generate_ai_reply" =>
        /\ ReachesTodo(Trimmed) =>
               out = ChecklistReply(CHECKLIST_PREFIX, ChecklistItems(Trimmed))
        /\ prompt = EX_TODO => out = ChecklistReply(CHECKLIST_PREFIX, EX_TODO_ITEMS)

\* C9 as stated: the same, with the header "Here's your checklist:\n" spelt
\* with an ASCII apostrophe.
C9_TodoRuleAsciiHeader ==
    fn = "generate_ai_reply" =>
        /\ ReachesTodo(Trimmed) =>
               out = ChecklistReply(ASCII_CHECKLIST_PREFIX, ChecklistItems(Trimmed))
        /\ prompt = EX_TODO => out = ChecklistReply(ASCII_CHECKLIST_PREFIX, EX_TODO_ITEMS)

\* the example prompt was answered with its four bullet lines
C9_Witness ==
    /\ fn = "generate_ai_reply"
    /\ prompt = EX_TODO
    /\ ChecklistItems(Trimmed) = EX_TODO_ITEMS
    /\ out = ChecklistReply(CHECKLIST_PREFIX, EX_TODO_ITEMS)

\* the input words of reflect that qualify: stripped of leading and trailing
\* '.', ',', '!', '?' and longer than 5 characters
Qualifying(text) ==
    LET ws == SplitWhitespace(text)
    IN  {w \in {Strip(ws[i], {46, 44, 33, 63}) : i \in 1..Len(ws)} : Len(w) > 5}

\* the n smallest elements of Q (all of them if fewer), in ascending order
Smallest(Q, n) ==
    [i \in 1..(IF Cardinality(Q) < n THEN Cardinality(Q) ELSE n) |->
        CHOOSE w \in Q : Cardinality({v \in Q : StrLess(v, w)}) = i - 1]

\* C10: reflect lists the (at most 6) smallest qualifying words of its input,
\* in strictly ascending code-point order and without duplicates, after
\* "key points (arrow) " and joined by ", "; without a qualifying word it
\* returns "sounds interesting!".
C10_ReflectKeys ==
    fn = "reflect" =>
        LET listed == Smallest(Qualifying(prompt), 6)
        IN  /\ \A i \in 1..(Len(listed) - 1) : StrLess(listed[i], listed[i + 1])
            /\ Len(listed) <= 6
            /\ out = IF listed = <<>> THEN NO_KEYS_REPLY
                     ELSE KEY_POINTS_PREFIX \o Join(COMMA_SPACE, listed)

\* reflect was applied to an input with more than 6 distinct qualifying words,
\* one of them stripped of punctuation
C10_Witness ==
    /\ fn = "reflect"
    /\ Cardinality(Qualifying(prompt)) > 6
    /\ Qualifying(prompt) # {w \in Range(SplitWhitespace(prompt)) : Len(w) > 5}
    /\ StartsWith(out, KEY_POINTS_PREFIX)

=============================================================================
